---- MODULE Spec2Model ----
(***************************************************************************)
(* Team progress state machine of the Amazing Race bot (src/Main.py).      *)
(*                                                                         *)
(* State: the in-memory team store STORE.data (an insertion-ordered dict   *)
(* of TeamState records), the snapshot last written to state.json and the  *)
(* USE_GEOFENCE switch read from the environment at start-up, and the bag  *)
(* of handler calls in flight (tasks), which the step-by-step              *)
(* specifications follow through their writes and replies; in the other    *)
(* specifications a handler runs from its first line to its last reply in  *)
(* one step.                                                               *)
(*                                                                         *)
(* Every command handler is an operator X_result(...) that gives, for the  *)
(* current store and the handler's input, the store it leaves, whether it  *)
(* saved, and how it ended (the reply it sent, or the exception it         *)
(* raised); the action X applies that result.                              *)
(*                                                                         *)
(* Units: points and scores are hundredths of a point (1.0 is 100, the     *)
(* default hint penalty 0.5 is 50), latitudes and longitudes are 1e-5      *)
(* degrees, distances are metres.  Text is a sequence of Unicode code      *)
(* points.  The "ts" field of last_location is read by no handler and is   *)
(* left out.                                                               *)
(***************************************************************************)
EXTENDS Integers, Sequences, FiniteSets, Bags, TLC

VARIABLES data, disk, USE_GEOFENCE, tasks

vars == <<data, disk, USE_GEOFENCE, tasks>>

(***************************************************************************)
(* Bounds of the model.                                                    *)
(***************************************************************************)
\* Length of the catalogue: the source pads QUESTIONS to 10 entries, the
\* model pads it to NumQuestions entries the same way.
NumQuestions == 2

\* /force lets a team resolve a challenge again, so history can grow without
\* limit; with /force in play, histories are explored up to this length.
MaxHistory == 1

\* A process killed between the two writes of a wrong answer comes back
\* with no attempt left on an open challenge, and does so again one below
\* each time it happens: attempts_left is followed down to -MaxOverdrawn.
MaxOverdrawn == 1

\* Updates arrive while handlers are suspended at their replies, without
\* limit; a new one is taken up while fewer than MaxInFlight handlers are
\* in flight.
MaxInFlight == 2

(***************************************************************************)
(* Configuration (defaults of the environment variables).                  *)
(***************************************************************************)
ATTEMPTS_PER_Q == 3

HINT_PENALTY == 50

ONE_POINT == 100

\* ADMIN_IDS is empty by default, which leaves /force to nobody; the model
\* runs with one administrator, who may also play.
ADMIN_IDS == {2}

\* The chat users that send commands.
Users == {1, 2}

\* Team names typed after /register and /force: "A".
TeamNames == {<<65>>}

(***************************************************************************)
(* Game data.                                                              *)
(***************************************************************************)
\* Optional values (None or a value) are sequences of length 0 or 1.
None == <<>>

Some(x) == <<x>>

\* str(i) for an integer i >= 0: its decimal digits.
RECURSIVE Str(_)
Str(i) == IF i < 10 THEN <<48 + i>> ELSE Str(i \div 10) \o <<48 + (i % 10)>>

\* The code of challenge i is f"CODE{i}".
PaddedQuestion(i) ==
    [id          |-> i,
     answer_code |-> <<67, 79, 68, 69>> \o Str(i),
     hints       |-> <<"Check the signboard.", "Try the ticket counter area.">>,
     geofence    |-> None]

QUESTIONS ==
    [i \in 1..NumQuestions |->
        IF i = 1
        THEN [id          |-> 1,
              \* "MERLION"
              answer_code |-> <<77, 69, 82, 76, 73, 79, 78>>,
              hints       |-> <<"It is near the steps facing the Padang.",
                                "Look beneath the coat of arms plate.">>,
              geofence    |-> Some([lat |-> 129027, lon |-> 10385150,
                                    radius_m |-> 120])]
        ELSE PaddedQuestion(i)]

\* Codes typed after /answer: every catalogue code, and "Merl\u0131on", in
\* mixed case and with a dotless i (U+0131), which str.upper() makes an I.
Codes ==
    {QUESTIONS[k].answer_code : k \in 1..NumQuestions}
        \cup {<<77, 101, 114, 108, 305, 111, 110>>}

\* Reported positions: 111.2 m north of the centre of the first challenge
\* (radius 120 m); 89 m north and 89 m east of it, which is 125.8 m away;
\* the centre itself written across the pole (latitude 178.70973,
\* longitude -76.1485); and the point opposite the centre on the globe,
\* written with 16 turns of latitude (latitude -5761.29027, longitude
\* -76.1485).  on_location stores them like any other.
Locations == {[lat |-> 129127, lon |-> 10385150],
              [lat |-> 129107, lon |-> 10385230],
              [lat |-> 17870973, lon |-> -7614850],
              [lat |-> -576129027, lon |-> -7614850]}

(***************************************************************************)
(* Data classes and persistence.                                           *)
(***************************************************************************)
TeamState(team_name, user_id) ==
    [team_name            |-> team_name,
     user_id              |-> user_id,
     current_q            |-> 1,
     score                |-> 0,
     attempts_left        |-> ATTEMPTS_PER_Q,
     hints_used_current_q |-> 0,
     history              |-> <<>>,
     last_location        |-> None]

\* Position of the record stored under a name, 0 when there is none.
Store_get(team_name) ==
    IF \E i \in 1..Len(data) : data[i].team_name = team_name
    THEN CHOOSE i \in 1..Len(data) : data[i].team_name = team_name
    ELSE 0

\* self.data[team.team_name] = team: an existing key keeps its position, a
\* new key goes last.
Store_put(d, team) ==
    IF \E i \in 1..Len(d) : d[i].team_name = team.team_name
    THEN [i \in 1..Len(d) |->
             IF d[i].team_name = team.team_name THEN team ELSE d[i]]
    ELSE Append(d, team)

\* How a handler ends: the store it leaves, whether Store.upsert ran (and
\* so Store.save wrote the store to state.json), the kind of reply it sent
\* or exception it raised, and the hint text when the reply carries one.
Result(d, saved, outcome, text) ==
    [data |-> d, saved |-> saved, outcome |-> outcome, text |-> text]

\* A handler that returns before touching the store.
Rejected(outcome) == Result(data, FALSE, outcome, "")

\* Store.upsert(team) followed by the reply.
Upserted(team, outcome, text) ==
    Result(Store_put(data, team), TRUE, outcome, text)

(***************************************************************************)
(* Helpers.                                                                *)
(***************************************************************************)
Max(a, b) == IF a >= b THEN a ELSE b

Min(a, b) == IF a <= b THEN a ELSE b

Abs(a) == IF a >= 0 THEN a ELSE -a

is_admin(user_id) == user_id \in ADMIN_IDS

\* Text (a command's words, a team name, an answer code) is a sequence of
\* Unicode code points: "A" is <<65>>.
Space == 32

\* " ".join(words): the words with one space between each two.
RECURSIVE Join(_)
Join(args) ==
    IF Len(args) = 0 THEN <<>>
    ELSE IF Len(args) = 1 THEN args[1]
    ELSE args[1] \o <<Space>> \o Join(Tail(args))

\* The characters str.strip() takes for white space, those of
\* str.isspace(): the ASCII controls 9..13 and 28..31, the space, U+0085,
\* U+00A0, U+1680, U+2000..U+200A, U+2028, U+2029, U+202F, U+205F and
\* U+3000.
Whitespace ==
    (9..13) \cup (28..32) \cup {133, 160, 5760} \cup (8192..8202)
        \cup {8232, 8233, 8239, 8287, 12288}

\* str.strip(): the text without the white space at its two ends.
RECURSIVE Strip(_)
Strip(s) ==
    IF Len(s) = 0 THEN s
    ELSE IF s[1] \in Whitespace THEN Strip(Tail(s))
    ELSE IF s[Len(s)] \in Whitespace THEN Strip(SubSeq(s, 1, Len(s) - 1))
    ELSE s

\* The characters str.upper() replaces by one other character, as runs
\* <<first, last, step, shift>>: every step-th code point from first to
\* last becomes the code point shift further on (a..z are 97..122 with
\* shift -32).
UpperRanges ==
    {
     <<97, 122, 1, -32>>, <<181, 181, 1, 743>>, <<224, 246, 1, -32>>,
     <<248, 254, 1, -32>>, <<255, 255, 1, 121>>, <<257, 303, 2, -1>>,
     <<305, 305, 1, -232>>, <<307, 311, 2, -1>>, <<314, 328, 2, -1>>,
     <<331, 375, 2, -1>>, <<378, 382, 2, -1>>, <<383, 383, 1, -300>>,
     <<384, 384, 1, 195>>, <<387, 389, 2, -1>>, <<392, 392, 1, -1>>,
     <<396, 396, 1, -1>>, <<402, 402, 1, -1>>, <<405, 405, 1, 97>>,
     <<409, 409, 1, -1>>, <<410, 410, 1, 163>>, <<414, 414, 1, 130>>,
     <<417, 421, 2, -1>>, <<424, 424, 1, -1>>, <<429, 429, 1, -1>>,
     <<432, 432, 1, -1>>, <<436, 438, 2, -1>>, <<441, 441, 1, -1>>,
     <<445, 445, 1, -1>>, <<447, 447, 1, 56>>, <<453, 453, 1, -1>>,
     <<454, 454, 1, -2>>, <<456, 456, 1, -1>>, <<457, 457, 1, -2>>,
     <<459, 459, 1, -1>>, <<460, 460, 1, -2>>, <<462, 476, 2, -1>>,
     <<477, 477, 1, -79>>, <<479, 495, 2, -1>>, <<498, 498, 1, -1>>,
     <<499, 499, 1, -2>>, <<501, 501, 1, -1>>, <<505, 543, 2, -1>>,
     <<547, 563, 2, -1>>, <<572, 572, 1, -1>>, <<575, 576, 1, 10815>>,
     <<578, 578, 1, -1>>, <<583, 591, 2, -1>>, <<592, 592, 1, 10783>>,
     <<593, 593, 1, 10780>>, <<594, 594, 1, 10782>>, <<595, 595, 1, -210>>,
     <<596, 596, 1, -206>>, <<598, 599, 1, -205>>, <<601, 601, 1, -202>>,
     <<603, 603, 1, -203>>, <<604, 604, 1, 42319>>, <<608, 608, 1, -205>>,
     <<609, 609, 1, 42315>>, <<611, 611, 1, -207>>, <<613, 613, 1, 42280>>,
     <<614, 614, 1, 42308>>, <<616, 616, 1, -209>>, <<617, 617, 1, -211>>,
     <<618, 618, 1, 42308>>, <<619, 619, 1, 10743>>, <<620, 620, 1, 42305>>,
     <<623, 623, 1, -211>>, <<625, 625, 1, 10749>>, <<626, 626, 1, -213>>,
     <<629, 629, 1, -214>>, <<637, 637, 1, 10727>>, <<640, 640, 1, -218>>,
     <<642, 642, 1, 42307>>, <<643, 643, 1, -218>>, <<647, 647, 1, 42282>>,
     <<648, 648, 1, -218>>, <<649, 649, 1, -69>>, <<650, 651, 1, -217>>,
     <<652, 652, 1, -71>>, <<658, 658, 1, -219>>, <<669, 669, 1, 42261>>,
     <<670, 670, 1, 42258>>, <<837, 837, 1, 84>>, <<881, 883, 2, -1>>,
     <<887, 887, 1, -1>>, <<891, 893, 1, 130>>, <<940, 940, 1, -38>>,
     <<941, 943, 1, -37>>, <<945, 961, 1, -32>>, <<962, 962, 1, -31>>,
     <<963, 971, 1, -32>>, <<972, 972, 1, -64>>, <<973, 974, 1, -63>>,
     <<976, 976, 1, -62>>, <<977, 977, 1, -57>>, <<981, 981, 1, -47>>,
     <<982, 982, 1, -54>>, <<983, 983, 1, -8>>, <<985, 1007, 2, -1>>,
     <<1008, 1008, 1, -86>>, <<1009, 1009, 1, -80>>, <<1010, 1010, 1, 7>>,
     <<1011, 1011, 1, -116>>, <<1013, 1013, 1, -96>>, <<1016, 1016, 1, -1>>,
     <<1019, 1019, 1, -1>>, <<1072, 1103, 1, -32>>, <<1104, 1119, 1, -80>>,
     <<1121, 1153, 2, -1>>, <<1163, 1215, 2, -1>>, <<1218, 1230, 2, -1>>,
     <<1231, 1231, 1, -15>>, <<1233, 1327, 2, -1>>, <<1377, 1414, 1, -48>>,
     <<4304, 4346, 1, 3008>>, <<4349, 4351, 1, 3008>>,
     <<5112, 5117, 1, -8>>, <<7296, 7296, 1, -6254>>,
     <<7297, 7297, 1, -6253>>, <<7298, 7298, 1, -6244>>,
     <<7299, 7300, 1, -6242>>, <<7301, 7301, 1, -6243>>,
     <<7302, 7302, 1, -6236>>, <<7303, 7303, 1, -6181>>,
     <<7304, 7304, 1, 35266>>, <<7545, 7545, 1, 35332>>,
     <<7549, 7549, 1, 3814>>, <<7566, 7566, 1, 35384>>,
     <<7681, 7829, 2, -1>>, <<7835, 7835, 1, -59>>, <<7841, 7935, 2, -1>>,
     <<7936, 7943, 1, 8>>, <<7952, 7957, 1, 8>>, <<7968, 7975, 1, 8>>,
     <<7984, 7991, 1, 8>>, <<8000, 8005, 1, 8>>, <<8017, 8023, 2, 8>>,
     <<8032, 8039, 1, 8>>, <<8048, 8049, 1, 74>>, <<8050, 8053, 1, 86>>,
     <<8054, 8055, 1, 100>>, <<8056, 8057, 1, 128>>, <<8058, 8059, 1, 112>>,
     <<8060, 8061, 1, 126>>, <<8112, 8113, 1, 8>>, <<8126, 8126, 1, -7205>>,
     <<8144, 8145, 1, 8>>, <<8160, 8161, 1, 8>>, <<8165, 8165, 1, 7>>,
     <<8526, 8526, 1, -28>>, <<8560, 8575, 1, -16>>, <<8580, 8580, 1, -1>>,
     <<9424, 9449, 1, -26>>, <<11312, 11359, 1, -48>>,
     <<11361, 11361, 1, -1>>, <<11365, 11365, 1, -10795>>,
     <<11366, 11366, 1, -10792>>, <<11368, 11372, 2, -1>>,
     <<11379, 11379, 1, -1>>, <<11382, 11382, 1, -1>>,
     <<11393, 11491, 2, -1>>, <<11500, 11502, 2, -1>>,
     <<11507, 11507, 1, -1>>, <<11520, 11557, 1, -7264>>,
     <<11559, 11559, 1, -7264>>, <<11565, 11565, 1, -7264>>,
     <<42561, 42605, 2, -1>>, <<42625, 42651, 2, -1>>,
     <<42787, 42799, 2, -1>>, <<42803, 42863, 2, -1>>,
     <<42874, 42876, 2, -1>>, <<42879, 42887, 2, -1>>,
     <<42892, 42892, 1, -1>>, <<42897, 42899, 2, -1>>,
     <<42900, 42900, 1, 48>>, <<42903, 42921, 2, -1>>,
     <<42933, 42947, 2, -1>>, <<42952, 42954, 2, -1>>,
     <<42961, 42961, 1, -1>>, <<42967, 42969, 2, -1>>,
     <<42998, 42998, 1, -1>>, <<43859, 43859, 1, -928>>,
     <<43888, 43967, 1, -38864>>, <<65345, 65370, 1, -32>>,
     <<66600, 66639, 1, -40>>, <<66776, 66811, 1, -40>>,
     <<66967, 67003, 2, -39>>, <<66968, 66977, 1, -39>>,
     <<66980, 66993, 1, -39>>, <<66996, 67001, 1, -39>>,
     <<67004, 67004, 1, -39>>, <<68800, 68850, 1, -64>>,
     <<71872, 71903, 1, -32>>, <<93792, 93823, 1, -32>>,
     <<125218, 125251, 1, -34>>
    }

\* The characters str.upper() replaces by several: <<223, <<83, 83>>>> is
\* the sharp s, which becomes SS.
UpperSpecial ==
    {
     <<223, <<83, 83>>>>, <<329, <<700, 78>>>>, <<496, <<74, 780>>>>,
     <<912, <<921, 776, 769>>>>, <<944, <<933, 776, 769>>>>,
     <<1415, <<1333, 1362>>>>, <<7830, <<72, 817>>>>, <<7831, <<84, 776>>>>,
     <<7832, <<87, 778>>>>, <<7833, <<89, 778>>>>, <<7834, <<65, 702>>>>,
     <<8016, <<933, 787>>>>, <<8018, <<933, 787, 768>>>>,
     <<8020, <<933, 787, 769>>>>, <<8022, <<933, 787, 834>>>>,
     <<8064, <<7944, 921>>>>, <<8065, <<7945, 921>>>>,
     <<8066, <<7946, 921>>>>, <<8067, <<7947, 921>>>>,
     <<8068, <<7948, 921>>>>, <<8069, <<7949, 921>>>>,
     <<8070, <<7950, 921>>>>, <<8071, <<7951, 921>>>>,
     <<8072, <<7944, 921>>>>, <<8073, <<7945, 921>>>>,
     <<8074, <<7946, 921>>>>, <<8075, <<7947, 921>>>>,
     <<8076, <<7948, 921>>>>, <<8077, <<7949, 921>>>>,
     <<8078, <<7950, 921>>>>, <<8079, <<7951, 921>>>>,
     <<8080, <<7976, 921>>>>, <<8081, <<7977, 921>>>>,
     <<8082, <<7978, 921>>>>, <<8083, <<7979, 921>>>>,
     <<8084, <<7980, 921>>>>, <<8085, <<7981, 921>>>>,
     <<8086, <<7982, 921>>>>, <<8087, <<7983, 921>>>>,
     <<8088, <<7976, 921>>>>, <<8089, <<7977, 921>>>>,
     <<8090, <<7978, 921>>>>, <<8091, <<7979, 921>>>>,
     <<8092, <<7980, 921>>>>, <<8093, <<7981, 921>>>>,
     <<8094, <<7982, 921>>>>, <<8095, <<7983, 921>>>>,
     <<8096, <<8040, 921>>>>, <<8097, <<8041, 921>>>>,
     <<8098, <<8042, 921>>>>, <<8099, <<8043, 921>>>>,
     <<8100, <<8044, 921>>>>, <<8101, <<8045, 921>>>>,
     <<8102, <<8046, 921>>>>, <<8103, <<8047, 921>>>>,
     <<8104, <<8040, 921>>>>, <<8105, <<8041, 921>>>>,
     <<8106, <<8042, 921>>>>, <<8107, <<8043, 921>>>>,
     <<8108, <<8044, 921>>>>, <<8109, <<8045, 921>>>>,
     <<8110, <<8046, 921>>>>, <<8111, <<8047, 921>>>>,
     <<8114, <<8122, 921>>>>, <<8115, <<913, 921>>>>,
     <<8116, <<902, 921>>>>, <<8118, <<913, 834>>>>,
     <<8119, <<913, 834, 921>>>>, <<8124, <<913, 921>>>>,
     <<8130, <<8138, 921>>>>, <<8131, <<919, 921>>>>,
     <<8132, <<905, 921>>>>, <<8134, <<919, 834>>>>,
     <<8135, <<919, 834, 921>>>>, <<8140, <<919, 921>>>>,
     <<8146, <<921, 776, 768>>>>, <<8147, <<921, 776, 769>>>>,
     <<8150, <<921, 834>>>>, <<8151, <<921, 776, 834>>>>,
     <<8162, <<933, 776, 768>>>>, <<8163, <<933, 776, 769>>>>,
     <<8164, <<929, 787>>>>, <<8166, <<933, 834>>>>,
     <<8167, <<933, 776, 834>>>>, <<8178, <<8186, 921>>>>,
     <<8179, <<937, 921>>>>, <<8180, <<911, 921>>>>, <<8182, <<937, 834>>>>,
     <<8183, <<937, 834, 921>>>>, <<8188, <<937, 921>>>>,
     <<64256, <<70, 70>>>>, <<64257, <<70, 73>>>>, <<64258, <<70, 76>>>>,
     <<64259, <<70, 70, 73>>>>, <<64260, <<70, 70, 76>>>>,
     <<64261, <<83, 84>>>>, <<64262, <<83, 84>>>>,
     <<64275, <<1348, 1350>>>>, <<64276, <<1348, 1333>>>>,
     <<64277, <<1348, 1339>>>>, <<64278, <<1358, 1350>>>>,
     <<64279, <<1348, 1341>>>>
    }

\* What str.upper() makes of one character.
UpperOf(c) ==
    IF \E p \in UpperSpecial : p[1] = c
    THEN (CHOOSE p \in UpperSpecial : p[1] = c)[2]
    ELSE IF \E r \in UpperRanges :
                c \in r[1]..r[2] /\ (c - r[1]) % r[3] = 0
    THEN <<c + (CHOOSE r \in UpperRanges :
                    c \in r[1]..r[2] /\ (c - r[1]) % r[3] = 0)[4]>>
    ELSE <<c>>

\* str.upper(): what it makes of each character, in order.
RECURSIVE UpperChars(_)
UpperChars(s) ==
    IF Len(s) = 0 THEN s ELSE UpperOf(s[1]) \o UpperChars(Tail(s))

\* UpperChars of the codes above, computed once.
UpperOfCodes == [s \in Codes |-> UpperChars(s)]

Upper(s) ==
    IF s \in DOMAIN UpperOfCodes THEN UpperOfCodes[s] ELSE UpperChars(s)

\* get_q raises StopIteration when no question has the id.
HasQ(i) == \E k \in 1..Len(QUESTIONS) : QUESTIONS[k].id = i

get_q(i) ==
    LET k == CHOOSE k \in 1..Len(QUESTIONS) :
                 /\ QUESTIONS[k].id = i
                 /\ \A j \in 1..(k - 1) : QUESTIONS[j].id /= i
    IN  QUESTIONS[k]

(***************************************************************************)
(* Arithmetic of the distance check.  The code computes in floating point  *)
(* (IEEE double precision); here a number is a sequence of limbs in base   *)
(* LimbBase, lowest first, the first FracLimbs of them after the point (32 *)
(* decimal places), and <<>> is 0.  Every operation rounds down in the     *)
(* last place.  The result of the code is this value with the rounding     *)
(* errors of its double arithmetic, which are bounded further down.        *)
(***************************************************************************)
LimbBase == 10000

FracLimbs == 8

Limb(a, i) == IF i <= Len(a) THEN a[i] ELSE 0

\* The number without its leading zero limbs.
RECURSIVE Trim(_)
Trim(a) ==
    IF Len(a) > 0 /\ a[Len(a)] = 0 THEN Trim(SubSeq(a, 1, Len(a) - 1)) ELSE a

\* Limbs brought into 0..LimbBase-1, from limb i on with carry c.
RECURSIVE Carry(_, _, _)
Carry(raw, i, c) ==
    IF i > Len(raw)
    THEN IF c = 0 THEN <<>>
         ELSE <<c % LimbBase>> \o Carry(raw, i, c \div LimbBase)
    ELSE <<(raw[i] + c) % LimbBase>>
             \o Carry(raw, i + 1, (raw[i] + c) \div LimbBase)

Norm(raw) == Trim(Carry(raw, 1, 0))

Add(a, b) ==
    Norm([i \in 1..Max(Len(a), Len(b)) |-> Limb(a, i) + Limb(b, i)])

RECURSIVE LeqFrom(_, _, _)
LeqFrom(a, b, i) ==
    IF i = 0 THEN TRUE
    ELSE IF Limb(a, i) /= Limb(b, i) THEN Limb(a, i) < Limb(b, i)
    ELSE LeqFrom(a, b, i - 1)

Leq(a, b) == LeqFrom(a, b, Max(Len(a), Len(b)))

\* a - b, and 0 when b is the larger.
Sub(a, b) ==
    IF Leq(a, b) THEN <<>>
    ELSE Norm([i \in 1..Len(a) |-> Limb(a, i) - Limb(b, i)])

RECURSIVE SumProd(_, _, _, _)
SumProd(a, b, k, i) ==
    IF i > Len(a) \/ i > k THEN 0
    ELSE (IF k + 1 - i <= Len(b) THEN a[i] * b[k + 1 - i] ELSE 0)
             + SumProd(a, b, k, i + 1)

\* Product of two whole numbers.
IntMul(a, b) ==
    IF Len(a) = 0 \/ Len(b) = 0 THEN <<>>
    ELSE Norm([k \in 1..(Len(a) + Len(b) - 1) |-> SumProd(a, b, k, 1)])

\* The number without its n lowest limbs.
Shr(a, n) == IF Len(a) <= n THEN <<>> ELSE SubSeq(a, n + 1, Len(a))

Mul(a, b) == Shr(IntMul(a, b), FracLimbs)

\* Product and quotient by a machine integer 0 < n <= 200000.
MulSmall(a, n) == Norm([i \in 1..Len(a) |-> a[i] * n])

RECURSIVE DivFrom(_, _, _, _)
DivFrom(a, n, i, rem) ==
    IF i = 0 THEN <<>>
    ELSE DivFrom(a, n, i - 1, (rem * LimbBase + a[i]) % n)
             \o <<(rem * LimbBase + a[i]) \div n>>

DivSmall(a, n) == Trim(DivFrom(a, n, Len(a), 0))

Zeros(n) == [i \in 1..n |-> 0]

FromInt(v) == IF v = 0 THEN <<>> ELSE Zeros(FracLimbs) \o Norm(<<v>>)

Pi == <<7950, 3832, 2643, 3846, 7932, 3589, 9265, 1415, 3>>

HalfPi == DivSmall(Pi, 2)

One == FromInt(1)

Half == DivSmall(One, 2)

\* 180 degrees, in 1e-5 degree.
HalfTurn == 18000000

\* math.radians of an angle of u * 1e-5 degree, and half of it.
Radians(u) == DivSmall(DivSmall(Mul(FromInt(u), Pi), HalfTurn \div 1000), 1000)

HalfRadians(u) ==
    DivSmall(DivSmall(Mul(FromInt(u), Pi), HalfTurn \div 500), 1000)

\* The sine and cosine series, summed until the terms vanish.
RECURSIVE SinSeries(_, _, _, _, _)
SinSeries(x2, term, k, pos, neg) ==
    IF term = <<>> THEN Sub(pos, neg)
    ELSE LET next == DivSmall(Mul(term, x2), (2 * k + 2) * (2 * k + 3))
         IN  IF k % 2 = 0
             THEN SinSeries(x2, next, k + 1, Add(pos, term), neg)
             ELSE SinSeries(x2, next, k + 1, pos, Add(neg, term))

\* math.sin and math.cos of 0 <= x <= pi/2.
Sin(x) == SinSeries(Mul(x, x), x, 0, <<>>, <<>>)

RECURSIVE CosSeries(_, _, _, _, _)
CosSeries(x2, term, k, pos, neg) ==
    IF term = <<>> THEN Sub(pos, neg)
    ELSE LET next == DivSmall(Mul(term, x2), (2 * k + 1) * (2 * k + 2))
         IN  IF k % 2 = 0
             THEN CosSeries(x2, next, k + 1, Add(pos, term), neg)
             ELSE CosSeries(x2, next, k + 1, pos, Add(neg, term))

Cos(x) == CosSeries(Mul(x, x), One, 0, <<>>, <<>>)

\* asin(sqrt(a))^2 = a + a^2/3 + 8a^3/45 + ...: each term is the one before
\* times a * 2n^2 / ((n+1)(2n+1)).
RECURSIVE AsinSqSeries(_, _, _, _)
AsinSqSeries(a, term, n, sum) ==
    IF term = <<>> THEN sum
    ELSE AsinSqSeries(a,
             DivSmall(MulSmall(Mul(term, a), 2 * n * n), (n + 1) * (2 * n + 1)),
             n + 1, Add(sum, term))

\* The square of math.asin(math.sqrt(a)), for 0 <= a <= 1/2.
AsinSq(a) == AsinSqSeries(a, a, 1, <<>>)

\* The largest d in lo..hi for which s, with d as its limb pos, has a
\* square of at most n.
RECURSIVE Digit(_, _, _, _, _)
Digit(n, s, pos, lo, hi) ==
    IF lo = hi THEN lo
    ELSE LET mid == (lo + hi + 1) \div 2
             c   == [s EXCEPT ![pos] = mid]
         IN  IF Leq(IntMul(c, c), n)
             THEN Digit(n, s, pos, mid, hi)
             ELSE Digit(n, s, pos, lo, mid - 1)

RECURSIVE IsqrtFrom(_, _, _)
IsqrtFrom(n, s, pos) ==
    IF pos = 0 THEN s
    ELSE IsqrtFrom(n, [s EXCEPT ![pos] = Digit(n, s, pos, 0, LimbBase - 1)],
                   pos - 1)

\* The square root of a whole number, rounded down.
Isqrt(n) ==
    Trim(IsqrtFrom(n, Zeros((Len(n) + 1) \div 2), (Len(n) + 1) \div 2))

\* Earth radius of the code, in metres.
R == 6371000

\* An angle of u * 1e-5 degree brought into 0..180 degrees: its cosine is
\* the same, and so is the squared sine of its half.
Fold(u) ==
    IF (Abs(u) % (2 * HalfTurn)) > HalfTurn
    THEN (2 * HalfTurn) - (Abs(u) % (2 * HalfTurn))
    ELSE Abs(u) % (2 * HalfTurn)

\* cos(radians(lat)): its sign, which is negative for a latitude beyond
\* the poles (more than 90 degrees), and its absolute value.
CosSign(lat) == IF Fold(lat) > HalfTurn \div 2 THEN -1 ELSE 1

CosAbs(lat) ==
    IF Fold(lat) > HalfTurn \div 2
    THEN Cos(Radians(HalfTurn - Fold(lat)))
    ELSE Cos(Radians(Fold(lat)))

(***************************************************************************)
(* The rounding errors of the code.  A position is the double nearest to   *)
(* its decimal degrees; a sum, difference, product or square root is       *)
(* rounded once, with a relative error of at most 2^-53; math.radians,     *)
(* math.sin, math.cos, math.asin and ** are taken to be within one unit in *)
(* the last place, twice that.  Where the platform's library puts a result *)
(* inside that error is not known: each call of within_geofence has its a  *)
(* and its distance somewhere in the range the errors leave, and is taken  *)
(* at the lowest a of the range ("down"), at the highest ("up"), or, where *)
(* the range reaches below 0 or above 1, at that edge of 0..1 ("edge").    *)
(* math.sqrt raises ValueError for an a below 0 and math.asin for a square *)
(* root above 1, so "down" and "up" raise where the range reaches past 0   *)
(* or 1.  The distance grows with a, so these three give every outcome the *)
(* call can have: ValueError, True or False.                               *)
(***************************************************************************)
\* 1.2e-16, just above 2^-53.
Ulp ==
    DivSmall(DivSmall(DivSmall(DivSmall(FromInt(12), 100000), 100000),
                      100000), 100)

\* 1e-29, for the places the arithmetic here drops.
Margin == <<1000>>

Roundings == {"down", "edge", "up"}

\* The error of radians(x - y) / 2: x and y are rounded, then their
\* difference, then the product with pi / 180.  Equal coordinates are the
\* same double and their difference is exactly 0.
ArgError(x, y) ==
    IF x = y THEN <<>>
    ELSE MulSmall(Mul(Ulp, HalfRadians(Abs(x) + Abs(y))), 4)

\* The error of sin(radians(x - y) / 2), s being its exact value.
SinError(x, y, s) == Add(ArgError(x, y), MulSmall(Mul(Ulp, s), 2))

\* The error of cos(radians(lat)), c being its exact absolute value.
CosError(lat, c) ==
    Add(MulSmall(Mul(Ulp, Radians(Abs(lat))), 3), MulSmall(Mul(Ulp, c), 2))

\* The error of s ** 2 for an s with error e.
SquareError(s, e) ==
    Add(Add(MulSmall(Mul(s, e), 2), Mul(e, e)),
        MulSmall(Mul(Ulp, Mul(s, s)), 2))

\* The error of p * q for a p with error ep and a q with error eq.
ProductError(p, ep, q, eq) ==
    Add(Add(Add(Mul(p, eq), Mul(q, ep)), Mul(ep, eq)), Mul(Ulp, Mul(p, q)))

\* A factor of a: its exact absolute value and the error of the code's.
Approx(value, error) == [value |-> value, error |-> error]

\* sin(dlat/2) and sin(dlon/2), of the coordinates x and y.
SinHalfOf(x, y, s) == Approx(s, SinError(x, y, s))

SinHalf(x, y) == SinHalfOf(x, y, Sin(HalfRadians(Fold(x - y))))

\* cos(radians(lat)).
CosOf(lat, c) == Approx(c, CosError(lat, c))

CosRadians(lat) == CosOf(lat, CosAbs(lat))

\* s ** 2 and p * q.
Square(s) == Approx(Mul(s.value, s.value), SquareError(s.value, s.error))

Product(p, q) ==
    Approx(Mul(p.value, q.value),
           ProductError(p.value, p.error, q.value, q.error))

Terms(first, second, sign) ==
    [first  |-> first.value,
     second |-> second.value,
     sign   |-> sign,
     error  |-> Add(first.error, second.error)]

\* The two terms of
\* a = sin(dlat/2)**2 + cos(radians(lat))*cos(radians(g["lat"]))*sin(dlon/2)**2
\* in exact arithmetic: the first, the absolute value and the sign of the
\* second, and the error of their sum in the code.
HaversineTerms(lat1, lon1, lat2, lon2) ==
    Terms(Square(SinHalf(lat1, lat2)),
          Product(Product(CosRadians(lat1), CosRadians(lat2)),
                  Square(SinHalf(lon1, lon2))),
          CosSign(lat1) * CosSign(lat2))

\* The exact a is not negative; and its absolute value.
TermsPlus(t) == t.sign = 1 \/ Leq(t.second, t.first)

TermsSum(t) ==
    IF t.sign = 1 THEN Add(t.first, t.second)
    ELSE IF TermsPlus(t) THEN Sub(t.first, t.second)
    ELSE Sub(t.second, t.first)

\* The error of the code's a: that of the terms and of adding them.  The
\* a of a position and itself is exactly 0.
SumError(a, error, same) ==
    IF same THEN <<>>
    ELSE Add(Add(error, MulSmall(Mul(Ulp, a), 3)), Margin)

\* The cosine of the code is positive: the latitude is within -90..90
\* degrees, or its cosine is above its error.
Proper(lat) ==
    \/ Abs(lat) <= HalfTurn \div 2
    \/ /\ CosSign(lat) = 1
       /\ ~Leq(CosAbs(lat), CosError(lat, CosAbs(lat)))

\* The a of absolute value a, not negative when plus, and error e, at one
\* side of that error: None is an a below 0 (math.sqrt raises) or above 1
\* (math.sqrt gives more than 1 and math.asin raises).  With both cosines
\* positive the code's a is a sum of terms that are not negative, and is
\* never below 0; nothing keeps it from being above 1.
SumAtSide(plus, a, e, proper, side) ==
    IF plus /\ ~Leq(Add(a, e), One)
    THEN IF side = "up" THEN None
         ELSE IF side = "edge" THEN Some(One)
         ELSE Some(Sub(a, e))
    ELSE IF plus /\ side = "up"
    THEN Some(Add(a, e))
    ELSE IF plus
    THEN IF Leq(e, a) THEN Some(Sub(a, e))
         ELSE IF proper \/ side = "edge" THEN Some(<<>>)
         ELSE None
    ELSE IF ~Leq(a, e) THEN None
    ELSE IF side = "up" THEN Some(Sub(e, a))
    ELSE IF side = "edge" THEN Some(<<>>)
    ELSE None

SumOfTerms(t, same, proper, side) ==
    SumAtSide(TermsPlus(t), TermsSum(t),
              SumError(TermsSum(t), t.error, same), proper, side)

\* a as the code has it at one side of its rounding errors, or None when it
\* is negative there (math.sqrt then raises ValueError) or above 1 (math.asin
\* then does).  The code's a is never negative when neither cosine is, as
\* for latitudes of -90..90 degrees.
HaversineA(lat1, lon1, lat2, lon2, side) ==
    SumOfTerms(HaversineTerms(lat1, lon1, lat2, lon2),
               lat1 = lat2 /\ lon1 = lon2,
               Proper(lat1) /\ Proper(lat2), side)

\* math.asin(math.sqrt(a)) for 0 <= a <= 1; above 1/2 it is
\* pi/2 - asin(sqrt(1 - a)).  The errors of the code's square root and
\* arc sine are those of DistanceAtSide.
AsinSqrt(a) ==
    IF Leq(a, Half)
    THEN Isqrt(Zeros(FracLimbs) \o AsinSq(a))
    ELSE Sub(HalfPi, Isqrt(Zeros(FracLimbs) \o AsinSq(Sub(One, a))))

\* The distance d with the errors of math.sqrt, math.asin and the product
\* with 2 * R, at one side.
DistanceAtSide(d, side) ==
    IF side = "down"
    THEN Sub(d, MulSmall(Mul(Ulp, d), 4))
    ELSE Add(d, MulSmall(Mul(Ulp, d), 4))

\* 2 * R * asin(sqrt(a)) in metres; None when there is no a.
Scaled(a, side) ==
    IF a = None THEN None
    ELSE Some(DistanceAtSide(
             MulSmall(MulSmall(AsinSqrt(a[1]), (2 * R) \div 1000), 1000),
             side))

\* d = 2 * R * asin(sqrt(a)), the distance in metres that within_geofence
\* computes between two positions given in 1e-5 degree, at one end of the
\* code's rounding errors; None when the code raises ValueError.
Haversine(lat1, lon1, lat2, lon2, side) ==
    Scaled(HaversineA(lat1, lon1, lat2, lon2, side), side)

\* The geofences of the catalogue.
Fences ==
    {QUESTIONS[k].geofence[1] :
        k \in {j \in 1..NumQuestions : QUESTIONS[j].geofence /= None}}

\* Haversine of the positions reported in the runs to the catalogue's
\* geofences, computed once.
HaversineOfLocations ==
    [l \in Locations, g \in Fences, f \in Roundings |->
        Haversine(l.lat, l.lon, g.lat, g.lon, f)]

Distance(lat, lon, g, f) ==
    IF <<[lat |-> lat, lon |-> lon], g, f>> \in DOMAIN HaversineOfLocations
    THEN HaversineOfLocations[[lat |-> lat, lon |-> lon], g, f]
    ELSE Haversine(lat, lon, g.lat, g.lon, f)

\* d <= g["radius_m"], for a d that was computed.
Inside(d, radius_m) == d /= None /\ Leq(d[1], FromInt(radius_m))

\* Variant: the USE_GEOFENCE switch is not consulted.
within_geofence_IgnoresSwitch(q, lat, lon, side) ==
    IF q.geofence = None
    THEN TRUE
    ELSE Inside(Distance(lat, lon, q.geofence[1], side),
                q.geofence[1].radius_m)

\* within_geofence raises ValueError (from math.sqrt of a negative a, or
\* from math.asin of a square root above 1).
within_geofence_raises(q, lat, lon, side) ==
    /\ USE_GEOFENCE
    /\ q.geofence /= None
    /\ Distance(lat, lon, q.geofence[1], side) = None

\* What within_geofence returns in a call whose arithmetic errs to this
\* side; of a call that raises (within_geofence_raises) nothing is returned,
\* and the value here is read by no handler.
within_geofence(q, lat, lon, side) ==
    IF ~(USE_GEOFENCE /\ q.geofence /= None)
    THEN TRUE
    ELSE Inside(Distance(lat, lon, q.geofence[1], side),
                q.geofence[1].radius_m)

\* Position in STORE.data of the first team owned by the user, 0 if none.
_require_team(user_id) ==
    IF \E i \in 1..Len(data) : data[i].user_id = user_id
    THEN CHOOSE i \in 1..Len(data) :
             /\ data[i].user_id = user_id
             /\ \A j \in 1..(i - 1) : data[j].user_id /= user_id
    ELSE 0

\* The sides the within_geofence of this user's /answer can err to.  It
\* does its arithmetic with USE_GEOFENCE on, for a position on record and a
\* challenge that has a geofence; otherwise it is not called or returns
\* before any arithmetic, and one side stands for all.
Sides(user_id) ==
    LET i == _require_team(user_id)
    IN  IF /\ USE_GEOFENCE
           /\ i /= 0
           /\ data[i].last_location /= None
           /\ HasQ(data[i].current_q)
           /\ get_q(data[i].current_q).geofence /= None
        THEN Roundings
        ELSE {"down"}

(***************************************************************************)
(* Handlers.                                                               *)
(***************************************************************************)
\* Variant: the name is not looked up before the record is written.
register_result_NoLookup(user_id, args) ==
    IF Len(args) = 0
    THEN Rejected("Usage")
    ELSE Upserted(TeamState(Strip(Join(args)), user_id), "Registered", "")

register_result(user_id, args) ==
    IF Len(args) = 0
    THEN Rejected("Usage")
    ELSE LET team_name == Strip(Join(args))
         IN  IF Store_get(team_name) /= 0
             THEN Rejected("NameTaken")
             ELSE Upserted(TeamState(team_name, user_id), "Registered", "")

Located(team, loc) == [team EXCEPT !.last_location = Some(loc)]

on_location_result(user_id, loc) ==
    LET i == _require_team(user_id)
    IN  IF i = 0
        THEN Rejected("NotRegistered")
        ELSE Upserted(Located(data[i], loc), "LocationReceived", "")

\* Variant: the hints used cost nothing.
Points_NoPenalty(hints_used) == ONE_POINT

\* points = max(0.0, 1.0 - team.hints_used_current_q * HINT_PENALTY)
Points(hints_used) == Max(0, ONE_POINT - hints_used * HINT_PENALTY)

\* The history entry of a resolution.
Entry(team, correct, points, attempts) ==
    [q        |-> team.current_q,
     correct  |-> correct,
     points   |-> points,
     attempts |-> attempts,
     hints    |-> team.hints_used_current_q]

\* Variant: the right code scores and leaves the team on the challenge.
AnswerCorrect_StaysOn(team) ==
    [team EXCEPT
        !.score                = @ + Points(team.hints_used_current_q),
        !.history              = Append(@, Entry(team, TRUE,
                                     Points(team.hints_used_current_q),
                                     ATTEMPTS_PER_Q - team.attempts_left + 1)),
        !.attempts_left        = ATTEMPTS_PER_Q,
        !.hints_used_current_q = 0]

\* The branch of answer taken on the right code.
AnswerCorrect(team) ==
    [team EXCEPT
        !.score                = @ + Points(team.hints_used_current_q),
        !.history              = Append(@, Entry(team, TRUE,
                                     Points(team.hints_used_current_q),
                                     ATTEMPTS_PER_Q - team.attempts_left + 1)),
        !.current_q            = @ + 1,
        !.attempts_left        = ATTEMPTS_PER_Q,
        !.hints_used_current_q = 0]

\* Variant: a wrong code costs nothing.
AnswerWrong_FreeRetry(team) == team

\* Variant: the attempt is taken and the challenge is never closed.
AnswerWrong_NeverCloses(team) == [team EXCEPT !.attempts_left = @ - 1]

\* Variant: the challenge is closed without a history entry.
AnswerWrong_NoEntry(team) ==
    LET t == [team EXCEPT !.attempts_left = @ - 1]
    IN  IF t.attempts_left <= 0
        THEN [t EXCEPT
                 !.current_q            = @ + 1,
                 !.attempts_left        = ATTEMPTS_PER_Q,
                 !.hints_used_current_q = 0]
        ELSE t

\* Variant: the challenge is closed one wrong answer early.
AnswerWrong_OneEarly(team) ==
    LET t == [team EXCEPT !.attempts_left = @ - 1]
    IN  IF t.attempts_left <= 1
        THEN [t EXCEPT
                 !.history              = Append(@, [q        |-> t.current_q,
                                                     correct  |-> FALSE,
                                                     points   |-> 0,
                                                     attempts |-> ATTEMPTS_PER_Q,
                                                     hints    |-> t.hints_used_current_q]),
                 !.current_q            = @ + 1,
                 !.attempts_left        = ATTEMPTS_PER_Q,
                 !.hints_used_current_q = 0]
        ELSE t

\* The branch of answer taken on a wrong code: one attempt less, and the
\* challenge is closed when none is left.
AnswerWrong(team) ==
    LET t == [team EXCEPT !.attempts_left = @ - 1]
    IN  IF t.attempts_left <= 0
        THEN [t EXCEPT
                 !.history              = Append(@, Entry(t, FALSE, 0,
                                                           ATTEMPTS_PER_Q)),
                 !.current_q            = @ + 1,
                 !.attempts_left        = ATTEMPTS_PER_Q,
                 !.hints_used_current_q = 0]
        ELSE t

\* The wrong branch in its two halves, each followed by its own
\* STORE.upsert and sync_row: the attempt is taken; then, with none left,
\* the challenge is closed.
AnswerWrongFirst(team) == [team EXCEPT !.attempts_left = @ - 1]

AnswerWrongSecond(team) ==
    IF team.attempts_left <= 0
    THEN [team EXCEPT
             !.history              = Append(@, Entry(team, FALSE, 0,
                                                       ATTEMPTS_PER_Q)),
             !.current_q            = @ + 1,
             !.attempts_left        = ATTEMPTS_PER_Q,
             !.hints_used_current_q = 0]
    ELSE team

\* The location check that comes before the code is compared: the call of
\* within_geofence returns False and the branch of the reply is taken.
OutOfRange(team, q, side) ==
    /\ team.last_location /= None
    /\ ~within_geofence_raises(q, team.last_location[1].lat,
                                   team.last_location[1].lon, side)
    /\ ~within_geofence(q, team.last_location[1].lat,
                           team.last_location[1].lon, side)

\* The location check fails with the ValueError of within_geofence.
OutOfRange_raises(team, q, side) ==
    /\ team.last_location /= None
    /\ within_geofence_raises(q, team.last_location[1].lat,
                                  team.last_location[1].lon, side)

IsCorrect(code, q) == code = Upper(q.answer_code)

\* get_q raises StopIteration for a team whose index is past the catalogue;
\* nothing in answer catches it (it leaves the coroutine as a RuntimeError),
\* and no reply is sent.  Nor is the ValueError of within_geofence caught.
\* side: where the arithmetic of this call's within_geofence errs.
answer_result(user_id, args, side) ==
    LET i == _require_team(user_id)
    IN  IF i = 0
        THEN Rejected("NotRegistered")
        ELSE IF Len(args) = 0
        THEN Rejected("Usage")
        ELSE IF ~HasQ(data[i].current_q)
        THEN Rejected("StopIteration")
        ELSE LET team == data[i]
                 code == Upper(Strip(Join(args)))
                 q    == get_q(team.current_q)
             IN  IF OutOfRange_raises(team, q, side)
                 THEN Rejected("ValueError")
                 ELSE IF OutOfRange(team, q, side)
                 THEN Rejected("OutOfRange")
                 ELSE IF IsCorrect(code, q)
                 THEN LET t == AnswerCorrect(team)
                      IN  IF t.current_q > Len(QUESTIONS)
                          THEN Upserted(t, "Finished", "")
                          ELSE Upserted(t, "Correct", "")
                 ELSE LET t == AnswerWrong(team)
                      IN  IF team.attempts_left - 1 <= 0
                          THEN IF t.current_q <= Len(QUESTIONS)
                               THEN Upserted(t, "OutOfAttempts", "")
                               ELSE Upserted(t, "GameOver", "")
                          ELSE Upserted(t, "Incorrect", "")

HintGranted(team) == [team EXCEPT !.hints_used_current_q = @ + 1]

hint_result(user_id) ==
    LET i == _require_team(user_id)
    IN  IF i = 0
        THEN Rejected("NotRegistered")
        ELSE IF ~HasQ(data[i].current_q)
        THEN Rejected("StopIteration")
        ELSE LET team == data[i]
                 q    == get_q(team.current_q)
                 idx  == team.hints_used_current_q
             IN  IF idx >= Len(q.hints)
                 THEN Rejected("NoMoreHints")
                 ELSE Upserted(HintGranted(team), "Hint", q.hints[idx + 1])

\* begin, which answer calls after the reply to a code that closed a
\* challenge: it looks the team up again and replies with the question of
\* the index the team has by then; it changes nothing.
begin_result(user_id) ==
    LET i == _require_team(user_id)
    IN  IF i = 0
        THEN Rejected("NotRegistered")
        ELSE IF ~HasQ(data[i].current_q)
        THEN Rejected("StopIteration")
        ELSE Rejected("Question")

\* Variant: the target is not clamped into the catalogue.
Forced_NoClamp(team, qn) ==
    [team EXCEPT
        !.current_q            = qn,
        !.attempts_left        = ATTEMPTS_PER_Q,
        !.hints_used_current_q = 0]

\* Variant: the override also clears the score.
Forced_ClearsScore(team, qn) ==
    [team EXCEPT
        !.current_q            = IF qn < 1 THEN 1
                                 ELSE IF qn > Len(QUESTIONS) THEN Len(QUESTIONS)
                                 ELSE qn,
        !.score                = 0,
        !.attempts_left        = ATTEMPTS_PER_Q,
        !.hints_used_current_q = 0]

\* A /force that moves the team but leaves its hint counter as it was.
Forced_KeepsHints(team, qn) ==
    [team EXCEPT
        !.current_q     = Max(1, Min(qn, Len(QUESTIONS))),
        !.attempts_left = ATTEMPTS_PER_Q]

Forced(team, qn) ==
    [team EXCEPT
        !.current_q            = Max(1, Min(qn, Len(QUESTIONS))),
        !.attempts_left        = ATTEMPTS_PER_Q,
        !.hints_used_current_q = 0]

\* args: the words after /force; the second one is read as an integer.
force_result(user_id, args) ==
    IF ~is_admin(user_id)
    THEN Rejected("NotAdmin")
    ELSE IF Len(args) < 2
    THEN Rejected("Usage")
    ELSE LET i == Store_get(args[1])
         IN  IF i = 0
             THEN Rejected("TeamNotFound")
             ELSE Upserted(Forced(data[i], args[2]), "Forced", "")

\* state.json after a handler: the store it leaves if it saved.
Saved(r) == IF r.saved THEN r.data ELSE disk

register(user_id, args) ==
    LET r == register_result(user_id, args)
    IN  /\ data' = r.data
        /\ disk' = Saved(r)
        /\ UNCHANGED <<USE_GEOFENCE, tasks>>

on_location(user_id, loc) ==
    LET r == on_location_result(user_id, loc)
    IN  /\ data' = r.data
        /\ disk' = Saved(r)
        /\ UNCHANGED <<USE_GEOFENCE, tasks>>

answer(user_id, args, side) ==
    LET r == answer_result(user_id, args, side)
    IN  /\ data' = r.data
        /\ disk' = Saved(r)
        /\ UNCHANGED <<USE_GEOFENCE, tasks>>

hint(user_id) ==
    LET r == hint_result(user_id)
    IN  /\ data' = r.data
        /\ disk' = Saved(r)
        /\ UNCHANGED <<USE_GEOFENCE, tasks>>

force(user_id, args) ==
    LET r == force_result(user_id, args)
    IN  /\ data' = r.data
        /\ disk' = Saved(r)
        /\ UNCHANGED <<USE_GEOFENCE, tasks>>

\* The key of the sort in scoreboard: (-score, current_q), smaller first.
KeyBefore(a, b) ==
    \/ a.score > b.score
    \/ a.score = b.score /\ a.current_q < b.current_q

\* sorted(...) is stable: a value goes after those already placed whose
\* key is not greater than its own.
SortedInsert(x, s) ==
    LET p == Cardinality({j \in 1..Len(s) : ~KeyBefore(x, s[j])})
    IN  SubSeq(s, 1, p) \o <<x>> \o SubSeq(s, p + 1, Len(s))

RECURSIVE Sorted(_)
Sorted(values) ==
    IF values = <<>>
    THEN <<>>
    ELSE SortedInsert(values[Len(values)],
                      Sorted(SubSeq(values, 1, Len(values) - 1)))

\* The teams in the order /scoreboard lists them.
scoreboard_teams == Sorted(data)

\* /scoreboard reads the store and replies; it changes nothing.
scoreboard == UNCHANGED vars

(***************************************************************************)
(* Inputs.                                                                 *)
(***************************************************************************)
\* With USE_GEOFENCE off no handler reads the position on record: one
\* reported position stands for all of them.
LocationsUnread == {[lat |-> 129107, lon |-> 10385230]}

\* Targets typed after /force, on both sides of the catalogue's range.
ForceTargets == 0..(NumQuestions + 1)

\* Names typed after /force: the registered names and one that is not.
ForceNames == TeamNames \cup {<<90>>}

\* The argument lists of each command: none, or the words it expects.
RegisterArgs == {<<>>} \cup {<<n>> : n \in TeamNames}

AnswerArgs == {<<>>} \cup {<<c>> : c \in Codes}

ForceArgs == {<<n>> : n \in ForceNames}
                 \cup {<<n, qn>> : n \in ForceNames, qn \in ForceTargets}

\* The bot starts on an empty store (no state.json) with the default
\* configuration, in which USE_GEOFENCE is off and no distance is computed.
Init ==
    /\ data = <<>>
    /\ disk = <<>>
    /\ USE_GEOFENCE = FALSE
    /\ tasks = EmptyBag

\* See MaxHistory.
HistoryBound == \A i \in 1..Len(data) : Len(data[i].history) <= MaxHistory

Register == \E u \in Users, args \in RegisterArgs : register(u, args)

OnLocation == \E u \in Users, l \in Locations : on_location(u, l)

OnLocationUnread == \E u \in Users, l \in LocationsUnread : on_location(u, l)

Answer ==
    \E u \in Users, args \in AnswerArgs :
        \E side \in Sides(u) : answer(u, args, side)

BoundedAnswer == Answer /\ HistoryBound'

Hint == \E u \in Users : hint(u)

Force == \E u \in Users, args \in ForceArgs : force(u, args)

Next ==
    \/ Register
    \/ OnLocationUnread
    \/ BoundedAnswer
    \/ Hint
    \/ Force

Spec == Init /\ [][Next]_vars

\* The game as the teams play it, with USE_GEOFENCE set either way in the
\* environment and no administrator: without /force a history is no longer than the
\* catalogue.
InitPlay ==
    /\ data = <<>>
    /\ disk = <<>>
    /\ USE_GEOFENCE \in BOOLEAN
    /\ tasks = EmptyBag

NextPlay ==
    \/ Register
    \/ OnLocation
    \/ Answer
    \/ Hint

SpecPlay == InitPlay /\ [][NextPlay]_vars

\* Two team names, one of them in two words, to have several teams on the
\* scoreboard: each user registers and answers, and anyone asks for the
\* scoreboard.
BoardArgs == {<<<<65>>>>, <<<<84, 101, 97, 109>>, <<66>>>>}

RegisterBoard == \E u \in Users, args \in BoardArgs : register(u, args)

NextBoard ==
    \/ RegisterBoard
    \/ Answer
    \/ scoreboard

SpecBoard == Init /\ [][NextBoard]_vars

\* Every handler that changes a team, /force among them, with room for one
\* history entry more than MaxHistory (a challenge resolved, forced back to
\* and resolved again) and, beyond that, for one challenge resolved the
\* same way over and over until its entries are one more than the
\* catalogue has challenges.
ReplayBound ==
    \A i \in 1..Len(data) :
        LET h == data[i].history
        IN  \/ Len(h) <= MaxHistory + 1
            \/ /\ Len(h) <= Len(QUESTIONS) + 1
               /\ \A k \in 1..Len(h) : h[k] = h[1]

NextReplay ==
    \/ Register
    \/ OnLocationUnread
    \/ Answer /\ ReplayBound'
    \/ Hint
    \/ Force

SpecReplay == Init /\ [][NextReplay]_vars

\* The game with the default configuration and no administrator, for a
\* team that keeps submitting: an /answer with a code that can be taken is
\* eventually taken.
SubmitAnswer ==
    \E u \in Users, args \in AnswerArgs :
        \E side \in Sides(u) : Len(args) > 0 /\ answer(u, args, side)

SpecProgress == Init /\ [][NextPlay]_vars /\ WF_vars(SubmitAnswer)

(***************************************************************************)
(* The handlers step by step.                                              *)
(*                                                                         *)
(* A handler that changes a team runs, without an await in between:        *)
(* the change in memory; Store.upsert, whose Store.save opens state.json   *)
(* for writing (which empties it) and writes the whole store; sync_row;    *)
(* and, in the wrong branch of answer with no attempt left, a second       *)
(* change, Store.upsert and sync_row.  It then awaits its reply, and an    *)
(* answer that closed a challenge and left the team playing goes on, once  *)
(* that reply is sent, to begin and awaits the reply of begin.  The event  *)
(* loop runs one handler at a time and takes another one up only when the  *)
(* running one awaits.  A write may raise, sync_row may fail, and the      *)
(* process may be killed and started again at any step.                    *)
(***************************************************************************)
\* state.json cut short: some strict prefix of the text of a store, which
\* json.loads turns down.
Torn == <<[torn |-> TRUE]>>

\* The team of that name in a store.
TeamOf(d, name) == d[CHOOSE i \in 1..Len(d) : d[i].team_name = name]

\* A handler in flight: the team it changes and the user whose update it
\* handles, where it stands ("save": about to write; "write": state.json
\* open; "sync": written, sync_row next), whether the second half of the
\* wrong branch is still to come, the team as the handler leaves it when
\* nothing disturbs it, and what follows its first reply ("end": nothing;
\* "begin": the call of begin after "Correct!"; "over": the test of the
\* index after "Out of attempts", then begin or "Game over!").
Task(name, user_id, more, want, then) ==
    [team |-> name, user |-> user_id, at |-> "save", more |-> more,
     want |-> Some(want), then |-> then]

\* A handler suspended at the await of a reply, with what it reads when it
\* is resumed: nothing, the user (begin), or the team and the user (the
\* test of the index, then begin).
Suspended(name, user_id, then) ==
    [team |-> IF then = "over" THEN name ELSE <<>>,
     user |-> IF then = "end" THEN 0 ELSE user_id,
     at   |-> "reply", more |-> FALSE, want |-> None, then |-> then]

\* A handler suspended at its last reply.
ReplyTask == Suspended(<<>>, 0, "end")

\* The process failed to start: Store.load raised at import.
Down ==
    [team |-> <<>>, user |-> 0, at |-> "down", more |-> FALSE, want |-> None,
     then |-> "end"]

\* Variant: sync_row is awaited, so that other handlers run during it.
IsAwait_SyncYields(at) == at \in {"reply", "sync"}

\* The places where a handler gives the event loop away.
IsAwait(at) == at = "reply"

\* The event loop is free: every handler in flight is suspended.
LoopFree == \A t \in BagToSet(tasks) : IsAwait(t.at)

\* Task t may take its next step: no other handler is running.
Runs(t) ==
    /\ BagIn(t, tasks)
    /\ \A o \in BagToSet(tasks (-) SetToBag({t})) : IsAwait(o.at)

\* Handlers that return, or raise, without a reply.
Silent == {"NotRegistered", "StopIteration", "ValueError", "NotAdmin"}

\* What follows the first reply of an answer that ends in this outcome.
Then(outcome) ==
    CASE outcome = "Correct"                      -> "begin"
      [] outcome \in {"OutOfAttempts", "GameOver"} -> "over"
      [] OTHER                                    -> "end"

\* A handler is taken up and runs to its first Store.upsert, or to its
\* first reply when it has none: r is what the whole handler would do,
\* first the team as changed before the first upsert.
Starts(r, name, user_id, first, more) ==
    /\ LoopFree
    /\ BagCardinality(tasks) < MaxInFlight
    /\ IF r.saved
       THEN /\ data'  = Store_put(data, first)
            /\ tasks' = tasks (+) SetToBag({Task(name, user_id, more,
                                                 TeamOf(r.data, name),
                                                 Then(r.outcome))})
       ELSE /\ data'  = data
            /\ tasks' = IF r.outcome \in Silent
                        THEN tasks
                        ELSE tasks (+) SetToBag({ReplyTask})
    /\ UNCHANGED <<disk, USE_GEOFENCE>>

StartRegister(user_id, args) ==
    LET r == register_result(user_id, args)
    IN  Starts(r, Strip(Join(args)), user_id,
               TeamState(Strip(Join(args)), user_id), FALSE)

StartAnswer(user_id, args, side) ==
    LET r == answer_result(user_id, args, side)
        i == _require_team(user_id)
    IN  IF ~r.saved
        THEN Starts(r, <<>>, user_id, <<>>, FALSE)
        ELSE IF r.outcome \in {"Correct", "Finished"}
        THEN Starts(r, data[i].team_name, user_id, AnswerCorrect(data[i]),
                    FALSE)
        ELSE Starts(r, data[i].team_name, user_id, AnswerWrongFirst(data[i]),
                    TRUE)

StartHint(user_id) ==
    LET r == hint_result(user_id)
        i == _require_team(user_id)
    IN  IF r.saved
        THEN Starts(r, data[i].team_name, user_id, HintGranted(data[i]),
                    FALSE)
        ELSE Starts(r, <<>>, user_id, <<>>, FALSE)

StartOnLocation(user_id, loc) ==
    LET r == on_location_result(user_id, loc)
        i == _require_team(user_id)
    IN  IF r.saved
        THEN Starts(r, data[i].team_name, user_id, Located(data[i], loc),
                    FALSE)
        ELSE Starts(r, <<>>, user_id, <<>>, FALSE)

StartForce(user_id, args) ==
    LET r == force_result(user_id, args)
    IN  IF r.saved
        THEN Starts(r, args[1], user_id,
                    Forced(data[Store_get(args[1])], args[2]), FALSE)
        ELSE Starts(r, <<>>, user_id, <<>>, FALSE)

\* Store.save, first part: write_text opens state.json for writing, which
\* truncates it, and starts to write.
SaveOpens(t) ==
    /\ Runs(t)
    /\ t.at = "save"
    /\ disk'  = Torn
    /\ tasks' = (tasks (-) SetToBag({t}))
                     (+) SetToBag({[t EXCEPT !.at = "write"]})
    /\ UNCHANGED <<data, USE_GEOFENCE>>

\* Store.save, second part: the text of the whole store is in the file.
SaveCloses(t) ==
    /\ Runs(t)
    /\ t.at = "write"
    /\ disk'  = data
    /\ tasks' = (tasks (-) SetToBag({t}))
                     (+) SetToBag({[t EXCEPT !.at = "sync"]})
    /\ UNCHANGED <<data, USE_GEOFENCE>>

\* write_text raises (OSError) before it opens the file or while it
\* writes: the exception leaves the handler, which has no try around
\* Store.upsert.
SaveFails(t) ==
    /\ Runs(t)
    /\ t.at \in {"save", "write"}
    /\ tasks' = tasks (-) SetToBag({t})
    /\ UNCHANGED <<data, disk, USE_GEOFENCE>>

\* The try of sync_row (gs_client, open, worksheet, find, update or
\* append_row): it goes through when the sheet is reached (ok) and raises
\* when it is not.
sync_row_try(ok) == IF ok THEN "done" ELSE "raised"

\* Variant: sync_row lets the failure out.
sync_row_Propagates(ok) == sync_row_try(ok)

\* sync_row: except Exception takes what the try raised, prints it and
\* returns.
sync_row(ok) == IF sync_row_try(ok) = "raised" THEN "printed" ELSE "done"

\* sync_row and what follows it up to the next Store.upsert or await: an
\* exception that leaves sync_row ends the handler; otherwise the wrong
\* branch of answer goes on to close the challenge when no attempt is
\* left, and every other handler goes to its reply.
AfterSync(t, ok) ==
    IF sync_row(ok) = "raised"
    THEN [data |-> data, disk |-> disk, tasks |-> tasks (-) SetToBag({t})]
    ELSE IF t.more /\ TeamOf(data, t.team).attempts_left <= 0
    THEN [data  |-> Store_put(data, AnswerWrongSecond(TeamOf(data, t.team))),
          disk  |-> disk,
          tasks |-> (tasks (-) SetToBag({t}))
                        (+) SetToBag({[t EXCEPT !.at = "save",
                                                !.more = FALSE]})]
    ELSE [data  |-> data,
          disk  |-> disk,
          tasks |-> (tasks (-) SetToBag({t}))
                        (+) SetToBag({Suspended(t.team, t.user, t.then)})]

SyncRow(t, ok) ==
    /\ Runs(t)
    /\ t.at = "sync"
    /\ data'  = AfterSync(t, ok).data
    /\ disk'  = AfterSync(t, ok).disk
    /\ tasks' = AfterSync(t, ok).tasks
    /\ UNCHANGED USE_GEOFENCE

\* What a resumed handler does up to its next await or its end.  After its
\* last reply it ends.  After "Out of attempts" it reads the index of its
\* team as it is by now, and past the catalogue it awaits "Game over!".
\* Otherwise, and after "Correct!", it calls begin, which awaits its reply
\* with the question, or raises (StopIteration from get_q) when the team
\* has been finished in the meantime.
Resumed(t) ==
    IF t.then = "end"
    THEN EmptyBag
    ELSE IF t.then = "over" /\ TeamOf(data, t.team).current_q > Len(QUESTIONS)
    THEN SetToBag({ReplyTask})
    ELSE IF begin_result(t.user).outcome = "Question"
    THEN SetToBag({ReplyTask})
    ELSE EmptyBag

\* A suspended handler is resumed: its reply is sent and it runs on.
Replies(t) ==
    /\ LoopFree
    /\ BagIn(t, tasks)
    /\ t.at = "reply"
    /\ tasks' = (tasks (-) SetToBag({t})) (+) Resumed(t)
    /\ UNCHANGED <<data, disk, USE_GEOFENCE>>

\* Store.load at start-up: the store read from state.json, or an exception
\* from json.loads.
Loaded == IF disk = Torn THEN <<>> ELSE disk

\* The process is killed and started again: every handler in flight is
\* gone and STORE is built from state.json.
Crash ==
    /\ data'  = Loaded
    /\ tasks' = IF disk = Torn THEN SetToBag({Down}) ELSE EmptyBag
    /\ UNCHANGED <<disk, USE_GEOFENCE>>

\* See MaxOverdrawn.
OverdrawnBound ==
    \A i \in 1..Len(data) : data[i].attempts_left >= -MaxOverdrawn

\* Registration and answers, with a process that is killed and started
\* again.
NextSteps ==
    \/ \E u \in Users, args \in RegisterArgs : StartRegister(u, args)
    \/ \E u \in Users, args \in AnswerArgs :
           \E side \in Sides(u) : StartAnswer(u, args, side) /\ OverdrawnBound'
    \/ \E t \in BagToSet(tasks) : SaveOpens(t)
    \/ \E t \in BagToSet(tasks) : SaveCloses(t)
    \/ \E t \in BagToSet(tasks), ok \in BOOLEAN : SyncRow(t, ok)
    \/ \E t \in BagToSet(tasks) : Replies(t)
    \/ Crash

SpecSteps == Init /\ [][NextSteps]_vars

\* Registration and answers, with writes that fail while the process
\* stays up.
NextFail ==
    \/ \E u \in Users, args \in RegisterArgs : StartRegister(u, args)
    \/ \E u \in Users, args \in AnswerArgs :
           \E side \in Sides(u) : StartAnswer(u, args, side) /\ OverdrawnBound'
    \/ \E t \in BagToSet(tasks) : SaveOpens(t)
    \/ \E t \in BagToSet(tasks) : SaveCloses(t)
    \/ \E t \in BagToSet(tasks) : SaveFails(t)
    \/ \E t \in BagToSet(tasks), ok \in BOOLEAN : SyncRow(t, ok)
    \/ \E t \in BagToSet(tasks) : Replies(t)

SpecFail == Init /\ [][NextFail]_vars

\* See MaxHistory: an /answer is followed when the history it leaves is
\* within the bound.  A team still gets to any index, and past the last
\* challenge, by /force and one challenge resolved from there.
LoopBound(r) ==
    \A i \in 1..Len(r.data) : Len(r.data[i].history) <= MaxHistory

\* Every handler that changes a team on the event loop, with a sheet that
\* may or may not be reached, while every write goes through and the
\* process stays up.
NextLoop ==
    \/ \E u \in Users, args \in RegisterArgs : StartRegister(u, args)
    \/ \E u \in Users, l \in LocationsUnread : StartOnLocation(u, l)
    \/ \E u \in Users, args \in AnswerArgs :
           \E side \in Sides(u) :
               /\ LoopBound(answer_result(u, args, side))
               /\ StartAnswer(u, args, side)
    \/ \E u \in Users : StartHint(u)
    \/ \E u \in Users, args \in ForceArgs : StartForce(u, args)
    \/ \E t \in BagToSet(tasks) : SaveOpens(t)
    \/ \E t \in BagToSet(tasks) : SaveCloses(t)
    \/ \E t \in BagToSet(tasks), ok \in BOOLEAN : SyncRow(t, ok)
    \/ \E t \in BagToSet(tasks) : Replies(t)

SpecLoop == Init /\ [][NextLoop]_vars

(***************************************************************************)
(* Vocabulary of the properties.                                           *)
(***************************************************************************)
Teams == 1..Len(data)

IsFinished(team) == team.current_q > Len(QUESTIONS)

\* Number of hints of the team's current challenge; a finished team has no
\* current challenge and so no hint left to take.
HintCount(team) ==
    IF HasQ(team.current_q) THEN Len(get_q(team.current_q).hints) ELSE 0

Last(seq) == seq[Len(seq)]

\* The step closes the team's challenge: one entry for the old index is
\* appended to its history.
Resolves(old, new) ==
    /\ Len(new.history) = Len(old.history) + 1
    /\ SubSeq(new.history, 1, Len(old.history)) = old.history
    /\ Last(new.history).q = old.current_q

\* The step is a /force that found team i.
ForcedStep(i) ==
    \E u \in Users, args \in ForceArgs :
        /\ force_result(u, args).outcome = "Forced"
        /\ Store_get(args[1]) = i
        /\ data' = force_result(u, args).data

\* An /answer with a code, by the owner of a team that is still playing and
\* is not stopped by the location check.
Evaluated(u, args, side) ==
    /\ _require_team(u) /= 0
    /\ Len(args) > 0
    /\ HasQ(data[_require_team(u)].current_q)
    /\ ~OutOfRange(data[_require_team(u)],
                   get_q(data[_require_team(u)].current_q), side)
    /\ ~OutOfRange_raises(data[_require_team(u)],
                          get_q(data[_require_team(u)].current_q), side)

RightCode(u, args) ==
    Upper(Strip(Join(args)))
        = Upper(get_q(data[_require_team(u)].current_q).answer_code)

\* max(0, 1 - h * HINT_PENALTY), written out from the claim.
C5_Points(h) ==
    CASE h = 0 -> ONE_POINT
      [] h = 2 -> 0
      [] OTHER -> IF ONE_POINT - h * HINT_PENALTY > 0
                  THEN ONE_POINT - h * HINT_PENALTY
                  ELSE 0

\* The handler result r keeps every team there is, under its name and
\* with its owner.
KeepsTeams(r) ==
    /\ Len(r.data) >= Len(data)
    /\ \A i \in Teams :
          /\ r.data[i].team_name = data[i].team_name
          /\ r.data[i].user_id = data[i].user_id

\* The location on record is farther from the centre of the current
\* challenge's geofence than its radius, with USE_GEOFENCE on, by a
\* distance that was computed (on the side the call errs to).
C10_TooFar(team, side) ==
    /\ USE_GEOFENCE
    /\ team.last_location /= None
    /\ HasQ(team.current_q)
    /\ get_q(team.current_q).geofence /= None
    /\ LET g == get_q(team.current_q).geofence[1]
           d == Distance(team.last_location[1].lat,
                         team.last_location[1].lon, g, side)
       IN  d /= None /\ ~Leq(d[1], FromInt(g.radius_m))

(***************************************************************************)
(* C1.  After every handler, every team has                                *)
(* 0 <= attempts_left <= ATTEMPTS_PER_Q and                                *)
(* 0 <= hints_used_current_q <= number of hints of its current challenge.  *)
(***************************************************************************)
C1_CountersInRange ==
    \A i \in Teams :
        /\ 0 <= data[i].attempts_left
        /\ data[i].attempts_left <= ATTEMPTS_PER_Q
        /\ 0 <= data[i].hints_used_current_q
        /\ data[i].hints_used_current_q <= HintCount(data[i])

\* A team that ran out of attempts on a challenge on which it had taken
\* every hint, and was moved on with both counters reset.
C1_Witness ==
    \E i \in Teams :
        /\ data[i].history /= <<>>
        /\ Last(data[i].history).correct = FALSE
        /\ Last(data[i].history).hints = 2
        /\ data[i].attempts_left = ATTEMPTS_PER_Q
        /\ data[i].hints_used_current_q = 0

(***************************************************************************)
(* C2 as claimed.  A team's current_q never decreases across any handler,  *)
(* /force included, and a team that is finished stays finished.  (The      *)
(* claim adds that every change is +1 on a resolution.)                    *)
(***************************************************************************)
C2_IndexNeverDecreases ==
    [][\A i \in Teams :
          /\ data'[i].current_q >= data[i].current_q
          /\ IsFinished(data[i]) => IsFinished(data'[i])]_vars

(***************************************************************************)
(* C2 amended.  In every step that is not a /force on the team, current_q  *)
(* stays or goes up by exactly 1 on a resolution, and a finished team      *)
(* stays finished; a /force on the team puts current_q anywhere in         *)
(* 1..Len(QUESTIONS), lower than before or not.                            *)
(***************************************************************************)
C2_IndexAdvancesOrForced ==
    [][\A i \in Teams :
          \/ data'[i].current_q = data[i].current_q
          \/ /\ data'[i].current_q = data[i].current_q + 1
             /\ Resolves(data[i], data'[i])
             /\ ~IsFinished(data[i])
          \/ /\ ForcedStep(i)
             /\ data'[i].current_q \in 1..Len(QUESTIONS)]_vars

\* A team that resolved its first challenge and was then forced back to it.
C2_Witness ==
    \E i \in Teams :
        /\ Len(data[i].history) = 1
        /\ data[i].history[1].q = 1
        /\ data[i].current_q = 1

(***************************************************************************)
(* C3 as claimed.  Every team's history has current_q - 1 entries, after   *)
(* any sequence of handlers (/force included).                             *)
(***************************************************************************)
C3_HistoryLength ==
    \A i \in Teams : Len(data[i].history) = data[i].current_q - 1

(***************************************************************************)
(* C3 amended.  A team is registered with Len(history) = current_q - 1,    *)
(* and every step that is not a /force on the team keeps                   *)
(* Len(history) - current_q as it is (a resolution adds one entry and one  *)
(* to the index, nothing else touches either): the equality holds for a    *)
(* team until it is forced.                                                *)
(***************************************************************************)
C3_HistoryLengthUnlessForced ==
    [][/\ \A i \in 1..Len(data') :
             i > Len(data) => Len(data'[i].history) = data'[i].current_q - 1
       /\ \A i \in Teams :
             \/ Len(data'[i].history) - data'[i].current_q
                    = Len(data[i].history) - data[i].current_q
             \/ ForcedStep(i)]_vars

\* A team that has resolved a challenge by answering, one entry for one
\* step of the index.
C3_Witness ==
    \E i \in Teams :
        /\ Len(data[i].history) = 1
        /\ data[i].history[1].q = 1
        /\ data[i].current_q = 2

(***************************************************************************)
(* C4.  A team's score never decreases, and it changes only in a step      *)
(* that resolves the challenge with a correct answer, by the points of     *)
(* the new history entry, which are not negative.                          *)
(***************************************************************************)
C4_ScoreMonotone ==
    [][\A i \in Teams :
          /\ data'[i].score >= data[i].score
          /\ data'[i].score /= data[i].score =>
                /\ Resolves(data[i], data'[i])
                /\ Last(data'[i].history).correct
                /\ Last(data'[i].history).points >= 0
                /\ data'[i].score
                       = data[i].score + Last(data'[i].history).points]_vars

\* A team that scored and was afterwards forced back: its score is kept.
C4_Witness ==
    \E i \in Teams :
        /\ data[i].score = 50
        /\ Len(data[i].history) = 1
        /\ data[i].current_q = 1

(***************************************************************************)
(* C5.  A correct /answer by a playing team with h hints used and r        *)
(* attempts left awards max(0, 1 - h * HINT_PENALTY) points (1.0 for       *)
(* h = 0, 0.0 for h = 2), appends the one entry                            *)
(* {q: old index, correct, points, attempts: budget - r + 1, hints: h},    *)
(* adds the points to the score, advances the index by 1 and resets        *)
(* attempts_left to the budget and hints_used_current_q to 0.  With two    *)
(* wrong answers and one hint before it, on the first challenge: score     *)
(* 0.5, index 2, entry attempts 3.                                         *)
(***************************************************************************)
C5_CorrectAnswer ==
    [][\A u \in Users, args \in AnswerArgs : \A side \in Sides(u) :
          (/\ Evaluated(u, args, side)
           /\ RightCode(u, args)
           /\ answer(u, args, side)) =>
              LET i   == _require_team(u)
                  old == data[i]
                  new == data'[i]
                  h   == old.hints_used_current_q
                  r   == old.attempts_left
              IN  /\ new.history = Append(old.history,
                         [q        |-> old.current_q,
                          correct  |-> TRUE,
                          points   |-> C5_Points(h),
                          attempts |-> ATTEMPTS_PER_Q - r + 1,
                          hints    |-> h])
                  /\ new.score = old.score + C5_Points(h)
                  /\ new.current_q = old.current_q + 1
                  /\ new.attempts_left = ATTEMPTS_PER_Q
                  /\ new.hints_used_current_q = 0
                  /\ new.team_name = old.team_name
                  /\ new.user_id = old.user_id
                  /\ new.last_location = old.last_location
                  /\ disk' = data'
                  /\ (old.current_q = 1 /\ old.score = 0 /\ r = 1 /\ h = 1) =>
                        /\ new.score = 50
                        /\ new.current_q = 2
                        /\ Last(new.history).attempts = 3]_vars

\* The team of the example: two wrong answers, one hint, the right code.
C5_Witness ==
    \E i \in Teams :
        /\ data[i].history = <<[q |-> 1, correct |-> TRUE, points |-> 50,
                                attempts |-> 3, hints |-> 1]>>
        /\ data[i].score = 50
        /\ data[i].current_q = 2
        /\ data[i].attempts_left = 3
        /\ data[i].hints_used_current_q = 0

(***************************************************************************)
(* C6.  A wrong /answer by a playing team with more than one attempt left  *)
(* only takes one attempt; with one attempt left (the budget-th wrong      *)
(* answer on the challenge) it appends the one entry                       *)
(* {q: old index, correct: false, points: 0, attempts: budget, hints},     *)
(* advances the index by exactly 1 and resets attempts_left to the budget  *)
(* and hints_used_current_q to 0.  No /answer moves the index by more      *)
(* than 1.                                                                 *)
(***************************************************************************)
C6_WrongAnswers ==
    [][\A u \in Users, args \in AnswerArgs : \A side \in Sides(u) :
          answer(u, args, side) =>
              /\ \A i \in Teams :
                    data'[i].current_q - data[i].current_q \in {0, 1}
              /\ (Evaluated(u, args, side) /\ ~RightCode(u, args)) =>
                    LET i   == _require_team(u)
                        old == data[i]
                        new == data'[i]
                    IN  IF old.attempts_left > 1
                        THEN new = [old EXCEPT
                                       !.attempts_left = old.attempts_left - 1]
                        ELSE new = [old EXCEPT
                                       !.history = Append(old.history,
                                           [q        |-> old.current_q,
                                            correct  |-> FALSE,
                                            points   |-> 0,
                                            attempts |-> ATTEMPTS_PER_Q,
                                            hints    |-> old.hints_used_current_q]),
                                       !.current_q = old.current_q + 1,
                                       !.attempts_left = ATTEMPTS_PER_Q,
                                       !.hints_used_current_q = 0]]_vars

\* A team moved on from its first challenge by its third wrong answer.
C6_Witness ==
    \E i \in Teams :
        /\ Len(data[i].history) = 1
        /\ data[i].history[1] = [q |-> 1, correct |-> FALSE, points |-> 0,
                                 attempts |-> ATTEMPTS_PER_Q, hints |-> 0]
        /\ data[i].current_q = 2
        /\ data[i].attempts_left = ATTEMPTS_PER_Q

(***************************************************************************)
(* C7 as claimed.  Once a team's current_q is past the catalogue, every    *)
(* further /answer with a code ends in the rejection AlreadyFinished, a    *)
(* reply to the caller, and leaves the store as it is.                     *)
(***************************************************************************)
C7_AlreadyFinished ==
    \A u \in Users, args \in AnswerArgs : \A side \in Sides(u) :
        (/\ _require_team(u) /= 0
         /\ IsFinished(data[_require_team(u)])
         /\ Len(args) > 0) =>
            /\ answer_result(u, args, side).outcome = "AlreadyFinished"
            /\ answer_result(u, args, side).data = data
            /\ ~answer_result(u, args, side).saved

(***************************************************************************)
(* C8 as claimed.  /hint ends in NoMoreHints and changes nothing when the  *)
(* team has used every hint of its challenge or is finished; otherwise it  *)
(* adds exactly 1 to hints_used_current_q and replies with the hint at     *)
(* 0-based position (old hints_used_current_q).                            *)
(***************************************************************************)
C8_Hints ==
    \A u \in Users :
        _require_team(u) /= 0 =>
            LET i   == _require_team(u)
                old == data[i]
                r   == hint_result(u)
            IN  IF IsFinished(old) \/ old.hints_used_current_q = HintCount(old)
                THEN /\ r.outcome = "NoMoreHints"
                     /\ r.data = data
                     /\ ~r.saved
                ELSE /\ r.outcome = "Hint"
                     /\ r.data[i] = [old EXCEPT !.hints_used_current_q =
                                         old.hints_used_current_q + 1]
                     /\ r.text = get_q(old.current_q).hints[
                                     old.hints_used_current_q + 1]

(***************************************************************************)
(* C9.  /register with a name that has a record ends in NameTaken and      *)
(* changes nothing, whoever sends it; and no handler, on any input,        *)
(* changes the team_name or the user_id of a record: they stay the ones    *)
(* of the first registration of the name.                                  *)
(***************************************************************************)
C9_FirstRegistrationWins ==
    /\ \A u \in Users, args \in RegisterArgs :
          (Len(args) > 0 /\ Store_get(Strip(Join(args))) /= 0) =>
              /\ register_result(u, args).outcome = "NameTaken"
              /\ register_result(u, args).data = data
              /\ ~register_result(u, args).saved
    /\ \A u \in Users :
          /\ \A args \in RegisterArgs : KeepsTeams(register_result(u, args))
          /\ \A l \in Locations : KeepsTeams(on_location_result(u, l))
          /\ \A args \in AnswerArgs, side \in Sides(u) :
                KeepsTeams(answer_result(u, args, side))
          /\ KeepsTeams(hint_result(u))
          /\ \A args \in ForceArgs : KeepsTeams(force_result(u, args))
    /\ \A i \in Teams : \A j \in Teams :
          data[i].team_name = data[j].team_name => i = j

\* A registered team that has played on, where the other user's /register
\* of its name is turned down.
C9_Witness ==
    \E i \in Teams : \E u \in Users :
        /\ u /= data[i].user_id
        /\ data[i].current_q = 2
        /\ register_result(u, <<data[i].team_name>>).outcome = "NameTaken"

(***************************************************************************)
(* C10.  An /answer with a code by a playing team ends in OutOfRange       *)
(* exactly when USE_GEOFENCE is on, the team has a last_location and       *)
(* within_geofence finds that location farther from the centre of the      *)
(* current challenge's geofence than its radius, wherever in its rounding  *)
(* errors the call lands; the rejection changes nothing and takes no       *)
(* attempt, right code or wrong (nor does a call in which within_geofence  *)
(* raises).  With no location on record the right code is accepted,        *)
(* geofence or not.                                                        *)
(***************************************************************************)
C10_OutOfRange ==
    \A u \in Users, args \in AnswerArgs : \A side \in Sides(u) :
        (_require_team(u) /= 0 /\ Len(args) > 0) =>
            LET i   == _require_team(u)
                old == data[i]
                r   == answer_result(u, args, side)
            IN  /\ r.outcome = "OutOfRange" <=> C10_TooFar(old, side)
                /\ r.outcome \in {"OutOfRange", "ValueError"} =>
                       (r.data = data /\ ~r.saved)
                /\ (/\ old.last_location = None
                    /\ HasQ(old.current_q)
                    /\ RightCode(u, args)) =>
                        /\ r.outcome \in {"Correct", "Finished"}
                        /\ r.data[i].current_q = old.current_q + 1

\* With the geofence on, a team 125.8 m from its challenge that has one
\* attempt less than the budget: its /answer is turned down, right or wrong.
C10_Witness ==
    /\ USE_GEOFENCE
    /\ \E i \in Teams :
          /\ \A side \in Sides(data[i].user_id) : C10_TooFar(data[i], side)
          /\ data[i].attempts_left = ATTEMPTS_PER_Q - 1
          /\ \A args \in AnswerArgs, side \in Sides(data[i].user_id) :
                Len(args) > 0 =>
                    answer_result(data[i].user_id, args, side).outcome
                        = "OutOfRange"

(***************************************************************************)
(* C11.  /force by an admin on an existing team sets current_q to the      *)
(* given number clamped into 1..Len(QUESTIONS) (never the finished index), *)
(* resets attempts_left to ATTEMPTS_PER_Q and hints_used_current_q to 0,   *)
(* and leaves history, score, team_name, user_id and last_location, and    *)
(* every other team, as they were; on a name that is not registered it     *)
(* answers TeamNotFound and changes and saves nothing.                     *)
(***************************************************************************)
C11_ForceSetIndex ==
    \A u \in Users, args \in ForceArgs :
        (is_admin(u) /\ Len(args) >= 2) =>
            LET r == force_result(u, args)
                i == Store_get(args[1])
                n == args[2]
            IN  IF i = 0
                THEN r.outcome = "TeamNotFound" /\ r.data = data /\ ~r.saved
                ELSE /\ r.outcome = "Forced"
                     /\ r.saved
                     /\ Len(r.data) = Len(data)
                     /\ \A j \in Teams : j /= i => r.data[j] = data[j]
                     /\ r.data[i].current_q =
                            (IF n < 1 THEN 1
                             ELSE IF n > Len(QUESTIONS) THEN Len(QUESTIONS)
                             ELSE n)
                     /\ ~IsFinished(r.data[i])
                     /\ r.data[i].attempts_left = ATTEMPTS_PER_Q
                     /\ r.data[i].hints_used_current_q = 0
                     /\ r.data[i].history = data[i].history
                     /\ r.data[i].score = data[i].score
                     /\ r.data[i].team_name = data[i].team_name
                     /\ r.data[i].user_id = data[i].user_id
                     /\ r.data[i].last_location = data[i].last_location

\* A team with a scored entry and a location on record that has used a
\* hint and an attempt on its current challenge: a /force on it has all of
\* these to keep or to reset, and a target above the catalogue to clamp.
C11_Witness ==
    \E i \in Teams :
        /\ data[i].score > 0
        /\ Len(data[i].history) > 0
        /\ data[i].last_location /= None
        /\ data[i].hints_used_current_q > 0
        /\ data[i].attempts_left < ATTEMPTS_PER_Q
        /\ force_result(2, <<data[i].team_name, Len(QUESTIONS) + 1>>).outcome
               = "Forced"

(***************************************************************************)
(* C12 as claimed.  /scoreboard lists the teams by score, highest first,   *)
(* and teams of equal score by current_q, highest first, whatever the      *)
(* store holds.                                                            *)
(***************************************************************************)
C12_Ranking ==
    \A k \in 1..(Len(scoreboard_teams) - 1) :
        LET a == scoreboard_teams[k]
            b == scoreboard_teams[k + 1]
        IN  \/ a.score > b.score
            \/ a.score = b.score /\ a.current_q >= b.current_q

(***************************************************************************)
(* C19 as claimed.  No two teams of the store have the same user_id: a     *)
(* /register by a user who already owns a team adds no second team.        *)
(***************************************************************************)
C19_OneTeamPerOwner ==
    \A i \in Teams, j \in Teams : i /= j => data[i].user_id /= data[j].user_id

(***************************************************************************)
(* C16 as claimed.  Every team has score <= Len(QUESTIONS) points and no   *)
(* two history entries for the same challenge, after any sequence of       *)
(* /answer, /hint and /force.                                              *)
(***************************************************************************)
C16_ScoredOnce ==
    \A i \in Teams :
        /\ data[i].score <= Len(QUESTIONS) * ONE_POINT
        /\ \A k \in 1..Len(data[i].history), l \in 1..Len(data[i].history) :
               k /= l => data[i].history[k].q /= data[i].history[l].q

\* The team's entries are for distinct challenges, all below its index,
\* and it has at most one point for each challenge below its index.
C16_Once(team) ==
    /\ team.current_q <= Len(QUESTIONS) + 1
    /\ team.score <= (team.current_q - 1) * ONE_POINT
    /\ \A k \in 1..Len(team.history) : team.history[k].q < team.current_q
    /\ \A k \in 1..Len(team.history), l \in 1..Len(team.history) :
           k /= l => team.history[k].q /= team.history[l].q

(***************************************************************************)
(* C16 amended.  A team is registered with no entry and no point, and      *)
(* every step that is not a /force on the team (a registration, a          *)
(* position, an /answer, a /hint, a /force on another team) keeps this:    *)
(* its entries are for distinct challenges below its index and its score   *)
(* is at most one point for each challenge below its index (so at most     *)
(* Len(QUESTIONS)).  Each challenge therefore awards points at most once   *)
(* to a team until the team is forced; a /force back lets it resolve a     *)
(* challenge again.                                                        *)
(***************************************************************************)
C16_ScoredOnceUnlessForced ==
    [][/\ \A i \in 1..Len(data') : i > Len(data) => C16_Once(data'[i])
       /\ \A i \in Teams :
             \/ C16_Once(data[i]) => C16_Once(data'[i])
             \/ ForcedStep(i)]_vars

\* A team that has resolved both of two challenges once, by the right code,
\* and holds a point for each.
C16_Witness ==
    \E i \in Teams :
        /\ Len(data[i].history) = 2
        /\ data[i].history[1].q = 1
        /\ data[i].history[2].q = 2
        /\ data[i].score = 2 * ONE_POINT
        /\ data[i].current_q = 3

\* The submissions a team can still make before it is finished, at most:
\* what is left on its current challenge and the budget of each later one.
C20_Left(team) ==
    (Len(QUESTIONS) - team.current_q) * ATTEMPTS_PER_Q + team.attempts_left

(***************************************************************************)
(* C20.  With no /force and no OutOfRange rejection, every /answer with a  *)
(* code by a team that is still playing advances current_q or takes one    *)
(* from attempts_left, right or wrong; a team starts with Len(QUESTIONS) * *)
(* ATTEMPTS_PER_Q submissions left at most, each one takes at least one    *)
(* from that number, hints and locations add none, and the number is 0     *)
(* exactly when the team is finished: a team that keeps submitting is      *)
(* finished after at most Len(QUESTIONS) * ATTEMPTS_PER_Q submissions.     *)
(***************************************************************************)
C20_Progress ==
    /\ [](\A i \in Teams :
             /\ C20_Left(data[i]) \in 0..(Len(QUESTIONS) * ATTEMPTS_PER_Q)
             /\ C20_Left(data[i]) = 0 <=> IsFinished(data[i]))
    /\ [](\A u \in Users, args \in AnswerArgs : \A side \in Sides(u) :
             Evaluated(u, args, side) =>
                 LET i   == _require_team(u)
                     new == answer_result(u, args, side).data[i]
                 IN  /\ \/ new.current_q = data[i].current_q + 1
                        \/ /\ new.current_q = data[i].current_q
                           /\ new.attempts_left < data[i].attempts_left
                     /\ C20_Left(new) < C20_Left(data[i]))
    /\ [][\A i \in Teams : C20_Left(data'[i]) <= C20_Left(data[i])]_vars
    /\ (Len(data) > 0) ~> (\A i \in Teams : IsFinished(data[i]))

\* A team that is finished after the largest number of submissions: every
\* challenge closed by its last attempt.
C20_Witness ==
    \E i \in Teams :
        /\ IsFinished(data[i])
        /\ Len(data[i].history) = Len(QUESTIONS)
        /\ \A k \in 1..Len(data[i].history) :
               /\ ~data[i].history[k].correct
               /\ data[i].history[k].attempts = ATTEMPTS_PER_Q

(***************************************************************************)
(* C13 as claimed.  A write of state.json that is interrupted (the process *)
(* is killed) or fails leaves the file with the whole store as it was      *)
(* before or the whole new store: outside a running write the file is      *)
(* never cut short.                                                        *)
(***************************************************************************)
C13_CrashConsistent ==
    (\A t \in BagToSet(tasks) : t.at /= "write") => disk /= Torn

(***************************************************************************)
(* C14.  In every handler that changes a team (register, on_location,      *)
(* answer, hint, force), sync_row is attempted only when state.json holds  *)
(* the store as it is in memory; and whether sync_row reaches the sheet or *)
(* fails, state.json stays as written, the team stays as committed (or is  *)
(* closed, after the last wrong answer), every other team stays as it is,  *)
(* and the handler is still in flight, on its way to what follows: a       *)
(* failed sync_row leaves the store, the file and the handler exactly      *)
(* where one that succeeds leaves them.                                    *)
(***************************************************************************)
C14_MirrorAfterWrite ==
    \A t \in BagToSet(tasks) :
        t.at = "sync" =>
            /\ disk = data
            /\ \A ok \in BOOLEAN :
                  LET after == AfterSync(t, ok)
                      team  == TeamOf(data, t.team)
                  IN  /\ after.disk = disk
                      /\ BagCardinality(after.tasks) = BagCardinality(tasks)
                      /\ Len(after.data) = Len(data)
                      /\ \A i \in 1..Len(data) :
                            data[i].team_name /= t.team =>
                                after.data[i] = data[i]
                      /\ TeamOf(after.data, t.team) =
                            (IF t.more /\ team.attempts_left <= 0
                             THEN [team EXCEPT
                                      !.history = Append(team.history,
                                          [q        |-> team.current_q,
                                           correct  |-> FALSE,
                                           points   |-> 0,
                                           attempts |-> ATTEMPTS_PER_Q,
                                           hints    |-> team.hints_used_current_q]),
                                      !.current_q = team.current_q + 1,
                                      !.attempts_left = ATTEMPTS_PER_Q,
                                      !.hints_used_current_q = 0]
                             ELSE team)
            /\ AfterSync(t, FALSE) = AfterSync(t, TRUE)

\* A wrong answer has taken the last attempt and written it; sync_row is
\* next, and after it, reached or not, the challenge is closed.
C14_Witness ==
    \E t \in BagToSet(tasks) :
        /\ t.at = "sync"
        /\ t.more
        /\ TeamOf(data, t.team).attempts_left = 0

(***************************************************************************)
(* C15.  In every interleaving of register, on_location, answer, hint and  *)
(* force in which a handler gives the event loop away at its awaits only,  *)
(* no handler has an await between reading a team and writing it: at most  *)
(* one handler at a time is between its change and its write, and when a   *)
(* handler has written, the team in memory and in state.json is what this  *)
(* handler alone makes of the team it read, whatever handlers are          *)
(* suspended meanwhile (no attempt, hint, index or point of another        *)
(* handler lost or counted twice).                                         *)
(***************************************************************************)
C15_Serialized ==
    /\ BagCardinality([t \in {o \in BagToSet(tasks) :
                                    o.at \in {"save", "write", "sync"}} |->
                           tasks[t]]) <= 1
    /\ \A t \in BagToSet(tasks) :
          (/\ t.at = "sync"
           /\ ~(t.more /\ TeamOf(data, t.team).attempts_left <= 0)) =>
              /\ TeamOf(data, t.team) = t.want[1]
              /\ TeamOf(disk, t.team) = t.want[1]

\* An /answer is suspended between its reply to the right code and its
\* call of begin, which will read the team again, while a /force of the
\* administrator has put the team of that user back on the challenge just
\* resolved and written it, a position on record and the entry of the
\* /answer kept.
C15_Witness ==
    \E s \in BagToSet(tasks), t \in BagToSet(tasks) :
        /\ s.at = "reply"
        /\ s.then = "begin"
        /\ t.at = "sync"
        /\ t.user /= s.user
        /\ _require_team(s.user) /= 0
        /\ data[_require_team(s.user)].team_name = t.team
        /\ LET team == TeamOf(data, t.team)
           IN  /\ team.last_location /= None
               /\ Len(team.history) = 1
               /\ team.history[1].correct
               /\ team.current_q = team.history[1].q

(***************************************************************************)
(* C17 as claimed.  With the process killed and started again between the  *)
(* two writes of an /answer, no store left in state.json with no handler   *)
(* in flight has a team with attempts_left <= 0, attempts_left is never    *)
(* negative in memory, and every history entry has                         *)
(* 1 <= attempts <= ATTEMPTS_PER_Q.                                        *)
(***************************************************************************)
C17_AttemptsAcrossCrash ==
    /\ (tasks = EmptyBag /\ disk /= Torn) =>
           \A k \in 1..Len(disk) : disk[k].attempts_left >= 1
    /\ \A i \in Teams :
           /\ data[i].attempts_left >= 0
           /\ \A k \in 1..Len(data[i].history) :
                 data[i].history[k].attempts \in 1..ATTEMPTS_PER_Q

(***************************************************************************)
(* C18 as claimed.  Whenever no handler is in flight, the store in memory  *)
(* is the store in state.json, also after a write that failed: a change    *)
(* that was not written leaves nothing behind.                             *)
(***************************************************************************)
C18_MemoryIsDisk ==
    tasks = EmptyBag => data = disk

====
